---- MODULE Spec2Model ----
(***************************************************************************)
(* Model of src/app.js: a hash-routed single page client that loads        *)
(* poi.json once, resolves the fragment against the dataset                *)
(* (region -> city -> landmark) and renders one view.                      *)
(*                                                                         *)
(* JavaScript strings are sequences of code points (naturals).             *)
(* JavaScript values that the code inspects are tagged records:            *)
(*   [t |-> "null"], [t |-> "num"], [t |-> "arr", v |-> <<...>>],           *)
(*   [t |-> "obj", f |-> [field |-> value, ...]]                           *)
(* A missing field (undefined) is a field name outside DOMAIN f.           *)
(***************************************************************************)
EXTENDS Integers, Sequences, FiniteSets, TLC

\* ------------------------------------------------------------------------
\* Characters
\* ------------------------------------------------------------------------

\* The printable ASCII characters, code points 32..126, in order (34, 92 and
\* 96 are spelled out).
AsciiTable ==
  << " ", "!", "dquote", "#", "$", "%", "&", "'", "(", ")", "*", "+", ",", "-", ".", "/",
     "0", "1", "2", "3", "4", "5", "6", "7", "8", "9", ":", ";", "<", "=", ">", "?",
     "@", "A", "B", "C", "D", "E", "F", "G", "H", "I", "J", "K", "L", "M", "N", "O",
     "P", "Q", "R", "S", "T", "U", "V", "W", "X", "Y", "Z", "[", "backslash", "]", "^", "_",
     "backtick", "a", "b", "c", "d", "e", "f", "g", "h", "i", "j", "k", "l", "m", "n", "o",
     "p", "q", "r", "s", "t", "u", "v", "w", "x", "y", "z", "{", "|", "}", "~" >>

Code(c) == 31 + (CHOOSE i \in 1..Len(AsciiTable) : AsciiTable[i] = c)

\* A string literal, written as a tuple of one-character strings.
Str(t) == [i \in 1..Len(t) |-> Code(t[i])]

PERCENT == Code("%")
SLASH == Code("/")
HASHMARK == Code("#")
HYPHEN == Code("-")

\* ------------------------------------------------------------------------
\* String.prototype.toLowerCase, for Basic Latin, Latin-1 and Cyrillic
\* ------------------------------------------------------------------------
LowerChar(cp) ==
  IF cp \in 65..90 THEN cp + 32
  ELSE IF cp \in 192..222 /\ cp # 215 THEN cp + 32
  ELSE IF cp \in 1040..1071 THEN cp + 32
  ELSE IF cp \in 1024..1039 THEN cp + 80
  ELSE cp

ToLowerCase(s) == [i \in 1..Len(s) |-> LowerChar(s[i])]

\* ------------------------------------------------------------------------
\* str.replace(/\s+/g, hyphen)
\* ------------------------------------------------------------------------
WhiteSpace ==
  {9, 10, 11, 12, 13, 32, 160, 5760, 8232, 8233, 8239, 8287, 12288, 65279}
    \cup (8192..8202)

RECURSIVE HyphenateFrom(_, _)
HyphenateFrom(s, i) ==
  IF i > Len(s) THEN <<>>
  ELSE IF s[i] \in WhiteSpace
       THEN IF i > 1 /\ s[i - 1] \in WhiteSpace
            THEN HyphenateFrom(s, i + 1)
            ELSE <<HYPHEN>> \o HyphenateFrom(s, i + 1)
       ELSE <<s[i]>> \o HyphenateFrom(s, i + 1)

ReplaceSpaces(s) == HyphenateFrom(s, 1)

\* ------------------------------------------------------------------------
\* encodeURIComponent
\* ------------------------------------------------------------------------
HexDigits == Str(<<"0","1","2","3","4","5","6","7","8","9","A","B","C","D","E","F">>)

\* A-Z a-z 0-9 - _ . ! ~ * ' ( )
Unreserved ==
  (65..90) \cup (97..122) \cup (48..57)
    \cup {Code("-"), Code("_"), Code("."), Code("!"), Code("~"),
          Code("*"), Code("'"), Code("("), Code(")")}

PctByte(b) == <<PERCENT, HexDigits[(b \div 16) + 1], HexDigits[(b % 16) + 1]>>

Utf8(cp) ==
  IF cp < 128 THEN <<cp>>
  ELSE IF cp < 2048 THEN <<192 + (cp \div 64), 128 + (cp % 64)>>
  ELSE IF cp < 65536
       THEN <<224 + (cp \div 4096), 128 + ((cp \div 64) % 64), 128 + (cp % 64)>>
  ELSE <<240 + (cp \div 262144), 128 + ((cp \div 4096) % 64),
         128 + ((cp \div 64) % 64), 128 + (cp % 64)>>

RECURSIVE PctBytes(_)
PctBytes(bs) ==
  IF bs = <<>> THEN <<>> ELSE PctByte(Head(bs)) \o PctBytes(Tail(bs))

EncodeChar(cp) == IF cp \in Unreserved THEN <<cp>> ELSE PctBytes(Utf8(cp))

RECURSIVE encodeURIComponent(_)
encodeURIComponent(s) ==
  IF s = <<>> THEN <<>> ELSE EncodeChar(Head(s)) \o encodeURIComponent(Tail(s))

\* ------------------------------------------------------------------------
\* decodeURIComponent: the result is [ok |-> FALSE] when it throws URIError
\* ------------------------------------------------------------------------
IsHex(c) == c \in (48..57) \cup (65..70) \cup (97..102)

HexVal(c) ==
  IF c \in 48..57 THEN c - 48
  ELSE IF c \in 65..70 THEN c - 55
  ELSE c - 87

\* s has an escape "%XX" at position i
HasEscape(s, i) ==
  /\ i + 2 <= Len(s)
  /\ s[i] = PERCENT
  /\ IsHex(s[i + 1])
  /\ IsHex(s[i + 2])

ByteAt(s, i) == 16 * HexVal(s[i + 1]) + HexVal(s[i + 2])

\* number of octets of the UTF-8 sequence a lead byte starts, 0 when invalid
SeqLen(b) ==
  IF b < 128 THEN 1
  ELSE IF b \in 192..223 THEN 2
  ELSE IF b \in 224..239 THEN 3
  ELSE IF b \in 240..247 THEN 4
  ELSE 0

\* s has continuation escapes for octets 2..n of a sequence that starts at i
HasContinuation(s, i, n) ==
  \A k \in 1..(n - 1) :
    /\ HasEscape(s, i + 3 * k)
    /\ ByteAt(s, i + 3 * k) \in 128..191

RECURSIVE Accumulate(_, _, _, _, _)
Accumulate(s, i, n, k, acc) ==
  IF k = n THEN acc
  ELSE Accumulate(s, i, n, k + 1, acc * 64 + (ByteAt(s, i + 3 * k) - 128))

LeadBits(b, n) ==
  IF n = 2 THEN b - 192 ELSE IF n = 3 THEN b - 224 ELSE b - 240

CodePointAt(s, i, n) == Accumulate(s, i, n, 1, LeadBits(ByteAt(s, i), n))

\* a well-formed UTF-8 value: not overlong, not a surrogate, at most U+10FFFF
ValidScalar(cp, n) ==
  IF n = 2 THEN cp >= 128
  ELSE IF n = 3 THEN cp >= 2048 /\ cp \notin 55296..57343
  ELSE cp >= 65536 /\ cp <= 1114111

RECURSIVE DecodeFrom(_, _)
DecodeFrom(s, i) ==
  IF i > Len(s) THEN [ok |-> TRUE, v |-> <<>>]
  ELSE IF s[i] # PERCENT
       THEN LET rest == DecodeFrom(s, i + 1)
            IN  IF rest.ok THEN [ok |-> TRUE, v |-> <<s[i]>> \o rest.v] ELSE rest
  ELSE IF ~HasEscape(s, i) THEN [ok |-> FALSE, v |-> <<>>]
  ELSE LET b == ByteAt(s, i)
           n == SeqLen(b)
       IN  IF n = 0 THEN [ok |-> FALSE, v |-> <<>>]
           ELSE IF n = 1
                THEN LET rest == DecodeFrom(s, i + 3)
                     IN  IF rest.ok THEN [ok |-> TRUE, v |-> <<b>> \o rest.v] ELSE rest
           ELSE IF ~HasContinuation(s, i, n) THEN [ok |-> FALSE, v |-> <<>>]
           ELSE LET cp == CodePointAt(s, i, n)
                IN  IF ~ValidScalar(cp, n) THEN [ok |-> FALSE, v |-> <<>>]
                    ELSE LET rest == DecodeFrom(s, i + 3 * n)
                         IN  IF rest.ok THEN [ok |-> TRUE, v |-> <<cp>> \o rest.v]
                             ELSE rest

decodeURIComponent(s) == DecodeFrom(s, 1)

\* safeDecode of router (lines 310-317) and of findAttraction (lines 77-84),
\* for a non-empty string: the decoded text, or the text itself on URIError.
\* safeDecode that gives the empty text, not the raw text, when
\* decodeURIComponent throws
TryDecodeEmpty(s) == LET d == decodeURIComponent(s) IN IF d.ok THEN d.v ELSE <<>>

TryDecode(s) == LET d == decodeURIComponent(s) IN IF d.ok THEN d.v ELSE s

\* ------------------------------------------------------------------------
\* JavaScript values
\* ------------------------------------------------------------------------
Null == [t |-> "null"]
Num == [t |-> "num"]
Arr(items) == [t |-> "arr", v |-> items]
Obj(fields) == [t |-> "obj", f |-> fields]

IsArray(x) == x.t = "arr"

\* ToBoolean of a value of the model (numbers of the model are non-zero)
Truthy(x) == x.t # "null"

\* x.k is defined (x is an object that carries field k)
Has(x, k) == x.t = "obj" /\ k \in DOMAIN x.f

\* x.k of a string-valued field in a boolean context or an || chain:
\* undefined and '' are both falsy, so undefined reads as ''
StrField(x, k) == IF Has(x, k) THEN x.f[k] ELSE <<>>

\* a || b || c || ''
Or3(a, b, c) == IF a # <<>> THEN a ELSE IF b # <<>> THEN b ELSE c

UNDEFINED == Str(<<"u","n","d","e","f","i","n","e","d">>)

\* String(x.slug): the text "undefined" when the field is missing
StringOfSlug(x) == IF Has(x, "slug") THEN x.f.slug ELSE UNDEFINED

\* a find that returns the last entry the callback accepts
ArrayFindLast(answers) ==
  LET stops == {i \in 1..Len(answers) : answers[i] # "no"}
  IN  IF stops = {} THEN 0
      ELSE LET i == CHOOSE j \in stops : \A k \in stops : j >= k
           IN  IF answers[i] = "throw" THEN -1 ELSE i

\* Array.prototype.find, given the answer of the callback for each entry in
\* order ("yes", "no", or "throw"): the index of the first "yes", 0 (null)
\* when there is none, -1 when the callback throws before a match is met.
ArrayFind(answers) ==
  LET stops == {i \in 1..Len(answers) : answers[i] # "no"}
  IN  IF stops = {} THEN 0
      ELSE LET i == CHOOSE j \in stops : \A k \in stops : j <= k
           IN  IF answers[i] = "throw" THEN -1 ELSE i

\* ------------------------------------------------------------------------
\* Slug Resolver
\* ------------------------------------------------------------------------
getSlug(item) ==
  IF ~Truthy(item) THEN <<>>
  ELSE IF StrField(item, "slug") # <<>> THEN item.f.slug
  ELSE encodeURIComponent(ReplaceSpaces(ToLowerCase(
         Or3(StrField(item, "name"), StrField(item, "title"), <<>>))))

\* ------------------------------------------------------------------------
\* Path Resolver
\* ------------------------------------------------------------------------
\* the find callback of findRegion with the name fields in the order
\* name, title, region
RegionTestNameFirst(r, regionSlug) ==
  IF r.t = "null" THEN "throw"
  ELSE LET regionName == Or3(StrField(r, "name"), StrField(r, "title"), StrField(r, "region"))
       IN  IF \/ getSlug(Obj([name |-> regionName])) = regionSlug
              \/ StringOfSlug(r) = regionSlug
           THEN "yes" ELSE "no"

RegionTest(r, regionSlug) ==
  IF r.t = "null" THEN "throw"
  ELSE LET regionName == Or3(StrField(r, "region"), StrField(r, "name"), StrField(r, "title"))
       IN  IF \/ getSlug(Obj([name |-> regionName])) = regionSlug
              \/ StringOfSlug(r) = regionSlug
           THEN "yes" ELSE "no"

findRegion(data, regionSlug) ==
  IF ~Truthy(data) \/ ~IsArray(data) THEN 0
  ELSE ArrayFind([i \in 1..Len(data.v) |-> RegionTest(data.v[i], regionSlug)])

CityTest(c, citySlug) ==
  IF c.t = "null" THEN "throw"
  ELSE LET cityName == Or3(StrField(c, "city"), StrField(c, "name"), StrField(c, "title"))
       IN  IF \/ getSlug(Obj([name |-> cityName])) = citySlug
              \/ StringOfSlug(c) = citySlug
           THEN "yes" ELSE "no"

\* region.cities / city.landmarks when it is an array, else the empty list
ChildArray(x, k) == IF Has(x, k) /\ IsArray(x.f[k]) THEN x.f[k].v ELSE <<>>

HasChildArray(x, k) == Has(x, k) /\ IsArray(x.f[k])

\* findCity without the Array.isArray guard: region.cities.find on a value
\* that is not an array throws
findCityUnguarded(region, citySlug) ==
  IF ~Truthy(region) THEN 0
  ELSE IF ~HasChildArray(region, "cities") THEN -1
  ELSE LET cities == region.f.cities.v
       IN  ArrayFind([i \in 1..Len(cities) |-> CityTest(cities[i], citySlug)])

findCity(region, citySlug) ==
  IF ~Truthy(region) \/ ~HasChildArray(region, "cities") THEN 0
  ELSE LET cities == region.f.cities.v
       IN  ArrayFind([i \in 1..Len(cities) |-> CityTest(cities[i], citySlug)])

AttractionTest(a, attrSlug) ==
  LET normalizedAttrSlug == TryDecode(attrSlug)
      aSlug == getSlug(a)
      normalizedASlug == TryDecode(aSlug)
  IN  IF normalizedASlug = normalizedAttrSlug \/ aSlug = attrSlug THEN "yes"
      ELSE IF a.t = "null" THEN "throw"
      ELSE IF \/ StringOfSlug(a) = attrSlug
              \/ TryDecode(StrField(a, "slug")) = normalizedAttrSlug
           THEN "yes" ELSE "no"

findAttraction(city, attrSlug) ==
  IF ~Truthy(city) \/ ~HasChildArray(city, "landmarks") THEN 0
  ELSE LET landmarks == city.f.landmarks.v
       IN  ArrayFind([i \in 1..Len(landmarks) |-> AttractionTest(landmarks[i], attrSlug)])

\* ------------------------------------------------------------------------
\* Views.  What a render function leaves in app.innerHTML: the kind of view
\* and the entities it shows, each named by its path in the dataset
\* (region index; <<region, city>>; <<region, city, landmark>>).
\* kind "Throw" is not a view: the function threw TypeError before it
\* assigned app.innerHTML.
\* ------------------------------------------------------------------------
View(kind, region, city, attraction) ==
  [kind |-> kind, region |-> region, city |-> city, attraction |-> attraction]

renderNotFound == View("NotFound", 0, <<>>, <<>>)

Thrown == View("Throw", 0, <<>>, <<>>)

renderError == View("Error", 0, <<>>, <<>>)

Blank == View("Blank", 0, <<>>, <<>>)

\* items.map(f) throws when f dereferences a null entry
HasNullEntry(items) == \E i \in 1..Len(items) : items[i].t = "null"

renderHome(data) ==
  LET regions == IF IsArray(data) THEN data.v ELSE <<>>
  IN  IF HasNullEntry(regions) THEN Thrown ELSE View("Home", 0, <<>>, <<>>)

renderRegion(data, regionSlug) ==
  LET ri == findRegion(data, regionSlug)
  IN  IF ri = -1 THEN Thrown
      ELSE IF ri = 0 THEN renderNotFound
      ELSE LET region == data.v[ri]
               cities == ChildArray(region, "cities")
           IN  IF \/ HasNullEntry(cities)
                  \/ \E i \in 1..Len(cities) : HasNullEntry(ChildArray(cities[i], "landmarks"))
               THEN Thrown
               ELSE View("Region", ri, <<>>, <<>>)

\* renderCity with the second guard lost: a city that is not found falls
\* back to the view of the region
renderCityFallback(data, regionSlug, citySlug) ==
  LET ri == findRegion(data, regionSlug)
  IN  IF ri = -1 THEN Thrown
      ELSE IF ri = 0 THEN renderNotFound
      ELSE LET region == data.v[ri]
               ci == findCity(region, citySlug)
           IN  IF ci = -1 THEN Thrown
               ELSE IF ci = 0 THEN View("Region", ri, <<>>, <<>>)
               ELSE LET city == region.f.cities.v[ci]
                    IN  IF HasNullEntry(ChildArray(city, "landmarks")) THEN Thrown
                        ELSE View("City", ri, <<ri, ci>>, <<>>)

\* renderCity looking the city up in every region when the resolved region
\* does not list it
renderCityAnyRegion(data, regionSlug, citySlug) ==
  LET ri == findRegion(data, regionSlug)
  IN  IF ri = -1 THEN Thrown
      ELSE IF ri = 0 THEN renderNotFound
      ELSE LET region == data.v[ri]
               ci == findCity(region, citySlug)
               others == {rj \in 1..Len(data.v) :
                            data.v[rj].t # "null" /\ findCity(data.v[rj], citySlug) > 0}
           IN  IF ci = -1 THEN Thrown
               ELSE IF ci = 0
                    THEN IF others = {} THEN renderNotFound
                         ELSE LET rj == CHOOSE j \in others : \A k \in others : j <= k
                              IN  View("City", ri, <<rj, findCity(data.v[rj], citySlug)>>, <<>>)
               ELSE LET city == region.f.cities.v[ci]
                    IN  IF HasNullEntry(ChildArray(city, "landmarks")) THEN Thrown
                        ELSE View("City", ri, <<ri, ci>>, <<>>)

renderCity(data, regionSlug, citySlug) ==
  LET ri == findRegion(data, regionSlug)
  IN  IF ri = -1 THEN Thrown
      ELSE IF ri = 0 THEN renderNotFound
      ELSE LET region == data.v[ri]
               ci == findCity(region, citySlug)
           IN  IF ci = -1 THEN Thrown
               ELSE IF ci = 0 THEN renderNotFound
               ELSE LET city == region.f.cities.v[ci]
                    IN  IF HasNullEntry(ChildArray(city, "landmarks")) THEN Thrown
                        ELSE View("City", ri, <<ri, ci>>, <<>>)

renderAttraction(data, regionSlug, citySlug, attrSlug) ==
  LET ri == findRegion(data, regionSlug)
  IN  IF ri = -1 THEN Thrown
      ELSE IF ri = 0 THEN renderNotFound
      ELSE LET region == data.v[ri]
               ci == findCity(region, citySlug)
           IN  IF ci = -1 THEN Thrown
               ELSE IF ci = 0 THEN renderNotFound
               ELSE LET city == region.f.cities.v[ci]
                        ai == findAttraction(city, attrSlug)
                    IN  IF ai = -1 THEN Thrown
                        ELSE IF ai = 0 THEN renderNotFound
                        ELSE View("Attraction", ri, <<ri, ci>>, <<ri, ci, ai>>)

\* ------------------------------------------------------------------------
\* Route Dispatcher
\* ------------------------------------------------------------------------

\* str.split('/').filter(Boolean): the non-empty pieces between slashes
RECURSIVE SplitFrom(_, _, _)
SplitFrom(s, i, cur) ==
  IF i > Len(s) THEN (IF cur = <<>> THEN <<>> ELSE <<cur>>)
  ELSE IF s[i] = SLASH
       THEN (IF cur = <<>> THEN <<>> ELSE <<cur>>) \o SplitFrom(s, i + 1, <<>>)
       ELSE SplitFrom(s, i + 1, Append(cur, s[i]))

\* (location.hash || '#/').replace(/^#/, '').split('/').filter(Boolean)
Parts(locationHash) ==
  LET h == IF locationHash = <<>> THEN <<HASHMARK, SLASH>> ELSE locationHash
      hash == IF h[1] = HASHMARK THEN Tail(h) ELSE h
  IN  SplitFrom(hash, 1, <<>>)

REGION == Str(<<"r","e","g","i","o","n">>)

\* safeDecode(parts[k]) of router: <<>> stands for the null it returns for a
\* missing part (a present part is non-empty and decodes to a non-empty text)
safeDecode(parts, k) == IF k > Len(parts) THEN <<>> ELSE TryDecode(parts[k])

\* router without the test of the leading keyword
routerAnyKeyword(data, locationHash) ==
  LET parts == Parts(locationHash)
  IN  IF Len(parts) = 0 THEN renderHome(data)
      ELSE LET regionSlug == safeDecode(parts, 2)
               citySlug == safeDecode(parts, 3)
               attrSlug == safeDecode(parts, 4)
           IN  IF regionSlug = <<>> THEN renderNotFound
               ELSE IF citySlug = <<>> THEN renderRegion(data, regionSlug)
               ELSE IF attrSlug = <<>> THEN renderCity(data, regionSlug, citySlug)
               ELSE renderAttraction(data, regionSlug, citySlug, attrSlug)

\* router after `await loadData()`: lines 295-342
router(data, locationHash) ==
  LET parts == Parts(locationHash)
  IN  IF Len(parts) = 0 THEN renderHome(data)
      ELSE IF parts[1] = REGION
      THEN LET regionSlug == safeDecode(parts, 2)
               citySlug == safeDecode(parts, 3)
               attrSlug == safeDecode(parts, 4)
           IN  IF regionSlug = <<>> THEN renderNotFound
               ELSE IF citySlug = <<>> THEN renderRegion(data, regionSlug)
               ELSE IF attrSlug = <<>> THEN renderCity(data, regionSlug, citySlug)
               ELSE renderAttraction(data, regionSlug, citySlug, attrSlug)
      ELSE renderNotFound

\* ------------------------------------------------------------------------
\* Links.  The anchors a view holds: the href and the view of the entity the
\* anchor was generated for.
\* ------------------------------------------------------------------------
\* the name shown for an entry that has none (U+0411 U+0435 U+0437, space, ...)
Untitled == <<1041, 1077, 1079, 32, 1085, 1072, 1079, 1074, 1072, 1085, 1080, 1103>>

HREF_HOME == <<HASHMARK, SLASH>>

HREF_REGION == <<HASHMARK, SLASH>> \o REGION \o <<SLASH>>

Link(href, target) == [href |-> href, target |-> target]

\* getSlug({name: r.region || r.name || r.title || <Untitled>}) of a card
CardSlug(e, alias) ==
  LET shown == Or3(StrField(e, alias), StrField(e, "name"), StrField(e, "title"))
  IN  getSlug(Obj([name |-> IF shown = <<>> THEN Untitled ELSE shown]))

\* the cards of renderHome: one per region
HomeCards(data) ==
  LET regions == IF IsArray(data) THEN data.v ELSE <<>>
  IN  [i \in 1..Len(regions) |->
         Link(HREF_REGION \o CardSlug(regions[i], "region"), View("Region", i, <<>>, <<>>))]

\* the cards of renderRegion: one per city of the region
RegionCards(data, ri, regionSlug) ==
  LET cities == ChildArray(data.v[ri], "cities")
  IN  [j \in 1..Len(cities) |->
         Link(HREF_REGION \o encodeURIComponent(regionSlug) \o <<SLASH>>
                \o CardSlug(cities[j], "city"),
              View("City", ri, <<ri, j>>, <<>>))]

\* the landmark anchors inside the cards of renderRegion
RegionLandmarkLinks(data, ri, regionSlug) ==
  LET cities == ChildArray(data.v[ri], "cities")
  IN  UNION { { Link(HREF_REGION \o encodeURIComponent(regionSlug) \o <<SLASH>>
                       \o encodeURIComponent(CardSlug(cities[j], "city")) \o <<SLASH>>
                       \o getSlug(ChildArray(cities[j], "landmarks")[k]),
                     View("Attraction", ri, <<ri, j>>, <<ri, j, k>>))
                : k \in 1..Len(ChildArray(cities[j], "landmarks")) }
              : j \in 1..Len(cities) }

\* the cards of renderCity: one per landmark of the city
CityCards(data, ri, ci, regionSlug, citySlug) ==
  LET attractions == ChildArray(ChildArray(data.v[ri], "cities")[ci], "landmarks")
  IN  [k \in 1..Len(attractions) |->
         Link(HREF_REGION \o encodeURIComponent(regionSlug) \o <<SLASH>>
                \o encodeURIComponent(citySlug) \o <<SLASH>> \o getSlug(attractions[k]),
              View("Attraction", ri, <<ri, ci>>, <<ri, ci, k>>))]

\* the breadcrumbs of the view v rendered for regionSlug and citySlug
Breadcrumbs(v, regionSlug, citySlug) ==
  (IF v.kind \in {"Region", "City", "Attraction"}
   THEN {Link(HREF_HOME, View("Home", 0, <<>>, <<>>))} ELSE {})
  \cup
  (IF v.kind \in {"City", "Attraction"}
   THEN {Link(HREF_REGION \o encodeURIComponent(regionSlug), View("Region", v.region, <<>>, <<>>))}
   ELSE {})
  \cup
  (IF v.kind = "Attraction"
   THEN {Link(HREF_REGION \o encodeURIComponent(regionSlug) \o <<SLASH>>
                \o encodeURIComponent(citySlug),
              View("City", v.region, v.city, <<>>))}
   ELSE {})

\* the cards of the view that router renders for locationHash
Cards(data, locationHash) ==
  LET parts == Parts(locationHash)
      v == router(data, locationHash)
  IN  IF v.kind = "Home" THEN HomeCards(data)
      ELSE IF v.kind = "Region" THEN RegionCards(data, v.region, safeDecode(parts, 2))
      ELSE IF v.kind = "City"
           THEN CityCards(data, v.region, v.city[2], safeDecode(parts, 2), safeDecode(parts, 3))
      ELSE <<>>

\* every anchor of the view that router renders for locationHash
Links(data, locationHash) ==
  LET parts == Parts(locationHash)
      v == router(data, locationHash)
      cards == Cards(data, locationHash)
  IN  {cards[i] : i \in 1..Len(cards)}
      \cup (IF v.kind = "Region"
            THEN RegionLandmarkLinks(data, v.region, safeDecode(parts, 2)) ELSE {})
      \cup Breadcrumbs(v, safeDecode(parts, 2), safeDecode(parts, 3))
      \cup (IF v.kind = "NotFound"
            THEN {Link(HREF_HOME, View("Home", 0, <<>>, <<>>))} ELSE {})

\* ------------------------------------------------------------------------
\* Datasets: the payloads poi.json may hold
\* ------------------------------------------------------------------------
North == Str(<<"N","o","r","t","h">>)
PortCity == Str(<<"P","o","r","t"," ","C","i","t","y">>)
OldTower == Str(<<"O","l","d"," ","T","o","w","e","r">>)
East == Str(<<"E","a","s","t">>)
Hill == Str(<<"H","i","l","l">>)
\* Cyrillic: U+0416 (capital ZHE) as a name, U+0436 (small zhe) as its lower case
Zhe == <<1046>>
ZheSmall == <<1078>>
Rate == Str(<<"5","0","%">>)
West == Str(<<"W","e","s","t">>)
FarEast == Str(<<"F","a","r"," ","E","a","s","t">>)
DV == Str(<<"D","V">>)
Bay == Str(<<"B","a","y">>)
Cove == Str(<<"C","o","v","e">>)
\* explicit slugs, stored percent-encoded
SlugWX == Str(<<"w","%","2","0","x">>)
SlugHC == Str(<<"h","%","2","0","c">>)
SlugOT == Str(<<"o","%","2","0","t">>)

\* scenario 1 of the specification
Scenario ==
  Arr(<< Obj([name |-> North,
              cities |-> Arr(<< Obj([name |-> PortCity,
                                     landmarks |-> Arr(<< Obj([name |-> OldTower]) >>)]) >>)]) >>)

\* two regions that share no city, a Cyrillic name at every level,
\* a name with a percent sign, a duplicated landmark
Atlas ==
  Arr(<< Obj([name |-> North,
              cities |-> Arr(<< Obj([name |-> PortCity,
                                     landmarks |-> Arr(<< Obj([name |-> OldTower]),
                                                          Obj([name |-> Zhe]),
                                                          Obj([name |-> Rate]),
                                                          Obj([name |-> OldTower]) >>)]),
                                Obj([name |-> Zhe,
                                     landmarks |-> Arr(<<>>)]) >>)]),
         Obj([name |-> East,
              cities |-> Arr(<< Obj([name |-> Hill,
                                     landmarks |-> Arr(<< Obj([name |-> OldTower]) >>)]) >>)]),
         Obj([name |-> Zhe,
              cities |-> Arr(<<>>)]) >>)

\* null entries at every level, a region without cities, a non-array cities
Ragged ==
  Arr(<< Obj([name |-> North,
              cities |-> Arr(<< Obj([name |-> PortCity,
                                     landmarks |-> Arr(<< Obj([name |-> OldTower]), Null >>)]),
                                Null >>)]),
         Obj([name |-> East, cities |-> Num]),
         Obj([name |-> Hill]),
         Null >>)

\* the wrapped shape: an object, not a sequence
Wrapped == Obj([regions |-> Scenario])

\* slugs unique in every container: Cyrillic names, alias fields next to
\* names, explicit slugs, a city without landmarks, a non-array landmarks
Gazetteer ==
  Arr(<< Obj([name |-> North,
              cities |-> Arr(<< Obj([name |-> PortCity,
                                     landmarks |-> Arr(<< Obj([name |-> OldTower]),
                                                          Obj([name |-> Zhe]) >>)]),
                                Obj([name |-> Zhe,
                                     landmarks |-> Arr(<< Obj([name |-> OldTower]) >>)]),
                                Obj([name |-> Hill]) >>)]),
         Obj([name |-> Zhe, cities |-> Arr(<<>>)]),
         Obj([region |-> FarEast, name |-> DV,
              cities |-> Arr(<< Obj([city |-> Bay, name |-> Cove, landmarks |-> Num]) >>)]),
         Obj([name |-> West, slug |-> SlugWX,
              cities |-> Arr(<< Obj([name |-> Hill, slug |-> SlugHC,
                                     landmarks |-> Arr(<< Obj([name |-> OldTower,
                                                               slug |-> SlugOT]) >>)]) >>)]) >>)

\* the same name twice in every container
Twins ==
  Arr(<< Obj([name |-> North,
              cities |-> Arr(<< Obj([name |-> PortCity,
                                     landmarks |-> Arr(<< Obj([name |-> OldTower]),
                                                          Obj([name |-> OldTower]) >>)]),
                                Obj([name |-> PortCity, landmarks |-> Arr(<<>>)]) >>)]),
         Obj([name |-> North, cities |-> Arr(<<>>)]) >>)

Datasets == <<Scenario, Atlas, Ragged, Wrapped, Gazetteer, Twins>>

DatasetIds == 1..Len(Datasets)

\* ------------------------------------------------------------------------
\* Fragments: the values location.hash may take
\* ------------------------------------------------------------------------
F_empty == <<>>
F_home == Str(<<"#","/">>)
F_keyword == Str(<<"#","/","r","e","g","i","o","n">>)
F_other == Str(<<"#","/","a","b","o","u","t","/","n","o","r","t","h">>)
F_north == Str(<<"#","/","r","e","g","i","o","n","/","n","o","r","t","h">>)
F_south == Str(<<"#","/","r","e","g","i","o","n","/","s","o","u","t","h">>)
F_east == Str(<<"#","/","r","e","g","i","o","n","/","e","a","s","t">>)
F_undefined == Str(<<"#","/","r","e","g","i","o","n","/","u","n","d","e","f","i","n","e","d">>)
F_zheEnc == Str(<<"#","/","r","e","g","i","o","n","/","%","D","0","%","B","6">>)
F_zheRaw == Str(<<"#","/","r","e","g","i","o","n","/">>) \o ZheSmall
F_port == Str(<<"#","/","r","e","g","i","o","n","/","n","o","r","t","h","/","p","o","r","t","-","c","i","t","y">>)
F_nocity == Str(<<"#","/","r","e","g","i","o","n","/","n","o","r","t","h","/","h","i","l","l">>)
F_eastPort == Str(<<"#","/","r","e","g","i","o","n","/","e","a","s","t","/","p","o","r","t","-","c","i","t","y">>)
F_southPort == Str(<<"#","/","r","e","g","i","o","n","/","s","o","u","t","h","/","p","o","r","t","-","c","i","t","y">>)
F_cityZheEnc == Str(<<"#","/","r","e","g","i","o","n","/","n","o","r","t","h","/","%","D","0","%","B","6">>)
F_cityUndef == Str(<<"#","/","r","e","g","i","o","n","/","n","o","r","t","h","/","u","n","d","e","f","i","n","e","d">>)
F_tower == Str(<<"#","/","r","e","g","i","o","n","/","n","o","r","t","h","/","p","o","r","t","-","c","i","t","y","/","o","l","d","-","t","o","w","e","r">>)
F_noattr == Str(<<"#","/","r","e","g","i","o","n","/","n","o","r","t","h","/","p","o","r","t","-","c","i","t","y","/","n","e","w","-","t","o","w","e","r">>)
F_hillTower == Str(<<"#","/","r","e","g","i","o","n","/","n","o","r","t","h","/","h","i","l","l","/","o","l","d","-","t","o","w","e","r">>)
F_attrZheEnc == Str(<<"#","/","r","e","g","i","o","n","/","n","o","r","t","h","/","p","o","r","t","-","c","i","t","y","/","%","D","0","%","B","6">>)
F_attrZheRaw == Str(<<"#","/","r","e","g","i","o","n","/","n","o","r","t","h","/","p","o","r","t","-","c","i","t","y","/">>) \o ZheSmall
F_attrRate == Str(<<"#","/","r","e","g","i","o","n","/","n","o","r","t","h","/","p","o","r","t","-","c","i","t","y","/","5","0","%","2","5">>)
F_attrRateRaw == Str(<<"#","/","r","e","g","i","o","n","/","n","o","r","t","h","/","p","o","r","t","-","c","i","t","y","/","5","0","%">>)
F_attrUndef == Str(<<"#","/","r","e","g","i","o","n","/","n","o","r","t","h","/","p","o","r","t","-","c","i","t","y","/","u","n","d","e","f","i","n","e","d">>)
F_extra == Str(<<"#","/","r","e","g","i","o","n","/","n","o","r","t","h","/","p","o","r","t","-","c","i","t","y","/","o","l","d","-","t","o","w","e","r","/","e","x","t","r","a">>)
F_extra2 == Str(<<"#","/","r","e","g","i","o","n","/","n","o","r","t","h","/","p","o","r","t","-","c","i","t","y","/","o","l","d","-","t","o","w","e","r","/","e","x","t","r","a","/","m","o","r","e">>)

F_hill == Str(<<"#","/","r","e","g","i","o","n","/","h","i","l","l">>)
F_hillPort == Str(<<"#","/","r","e","g","i","o","n","/","h","i","l","l","/","p","o","r","t","-","c","i","t","y">>)
F_dv == Str(<<"#","/","r","e","g","i","o","n","/","d","v">>)
F_farEast == Str(<<"#","/","r","e","g","i","o","n","/","f","a","r","-","e","a","s","t">>)
F_farCove == Str(<<"#","/","r","e","g","i","o","n","/","f","a","r","-","e","a","s","t","/","c","o","v","e">>)
F_farBay == Str(<<"#","/","r","e","g","i","o","n","/","f","a","r","-","e","a","s","t","/","b","a","y">>)
F_farBayTower == Str(<<"#","/","r","e","g","i","o","n","/","f","a","r","-","e","a","s","t","/","b","a","y","/","o","l","d","-","t","o","w","e","r">>)
F_slugWX == Str(<<"#","/","r","e","g","i","o","n","/","w","%","2","0","x">>)
F_slugWXraw == Str(<<"#","/","r","e","g","i","o","n","/","w"," ","x">>)
F_westHC == Str(<<"#","/","r","e","g","i","o","n","/","w","e","s","t","/","h","%","2","0","c">>)
F_westHillOT == Str(<<"#","/","r","e","g","i","o","n","/","w","e","s","t","/","h","i","l","l","/","o","%","2","0","t">>)
F_westHillOTraw == Str(<<"#","/","r","e","g","i","o","n","/","w","e","s","t","/","h","i","l","l","/","o"," ","t">>)
F_cityRateRaw == Str(<<"#","/","r","e","g","i","o","n","/","n","o","r","t","h","/","5","0","%">>)
F_regionRateRaw == Str(<<"#","/","r","e","g","i","o","n","/","%","z","z">>)

AllFragments ==
  { F_empty, F_home, F_keyword, F_other, F_north, F_south, F_east, F_undefined,
    F_zheEnc, F_zheRaw, F_port, F_nocity, F_eastPort, F_southPort, F_cityZheEnc,
    F_cityUndef, F_tower, F_noattr, F_hillTower, F_attrZheEnc, F_attrZheRaw,
    F_attrRate, F_attrRateRaw, F_attrUndef, F_extra, F_extra2,
    F_hill, F_hillPort, F_dv, F_farEast, F_farCove,
    F_farBay, F_farBayTower, F_slugWX, F_slugWXraw, F_westHC,
    F_westHillOT, F_westHillOTraw, F_cityRateRaw, F_regionRateRaw }

\* ------------------------------------------------------------------------
\* Bounds
\* ------------------------------------------------------------------------

\* router() calls that may be suspended in loadData at the same time
MaxInFlight == 2

\* fetches issued in one session
MaxFetches == 3

\* the fragments and the payloads of the sessions with a live loader
Fragments == {F_home, F_north, F_port}

Payloads == {1, 3}

\* ------------------------------------------------------------------------
\* State
\* ------------------------------------------------------------------------
VARIABLES
  DATA,       \* the cache (line 18): 0 is null, else an index of Datasets
  hash,       \* location.hash
  started,    \* DOMContentLoaded has fired
  inflight,   \* the router() calls suspended in loadData, oldest first:
              \*   "fetch" awaits fetch() (line 24), "json" awaits res.json() (line 26)
  view,       \* the view in app.innerHTML
  last,       \* the router() call that finished last: the data and the
              \*   fragment it used, what it did, and whether loadData
              \*   answered it from the cache
  fetches,    \* fetch() calls issued so far
  failed      \* a call of loadData has failed in this session

vars == <<DATA, hash, started, inflight, view, last, fetches, failed>>

Ran(data, h, out, cached) ==
  [data |-> data, hash |-> h, out |-> out, cached |-> cached]

\* loadData without the test of the cache
CacheMiss == FALSE

\* `if (DATA) return DATA;` (line 22)
CacheHit == DATA # 0

\* app.innerHTML after a render function returned or threw
Shown(out) == IF out.kind = "Throw" THEN view ELSE out

\* router() from line 295 on, with the value loadData returned; location.hash
\* is read at this point, after the await
Resume(d, h, cached) ==
  LET out == router(Datasets[d], h)
  IN  /\ view' = Shown(out)
      /\ last' = Ran(d, h, out, cached)

\* router() is called (lines 348, 353) while location.hash is h: loadData
\* returns the cache, or issues a fetch and suspends
CallRouter(h) ==
  IF CacheHit
  THEN /\ Resume(DATA, h, TRUE)
       /\ UNCHANGED <<DATA, inflight, fetches, failed>>
  ELSE /\ Len(inflight) < MaxInFlight
       /\ fetches < MaxFetches
       /\ fetches' = fetches + 1
       /\ inflight' = Append(inflight, "fetch")
       /\ UNCHANGED <<DATA, view, last, failed>>

Init ==
  /\ DATA = 0
  /\ hash \in Fragments
  /\ started = FALSE
  /\ inflight = <<>>
  /\ view = Blank
  /\ last = Ran(0, <<>>, Blank, FALSE)
  /\ fetches = 0
  /\ failed = FALSE

\* lines 351-354
DOMContentLoaded ==
  /\ ~started
  /\ started' = TRUE
  /\ UNCHANGED hash
  /\ CallRouter(hash)

\* lines 346-349: the fragment changes to h
HashChange(h) ==
  /\ h # hash
  /\ hash' = h
  /\ UNCHANGED started
  /\ CallRouter(h)

Remove(seq, i) == SubSeq(seq, 1, i - 1) \o SubSeq(seq, i + 1, Len(seq))

\* loadData whose catch rethrows without renderError
LoadFailsSilent(i) ==
  /\ view' = view
  /\ last' = Ran(0, hash, Thrown, FALSE)
  /\ failed' = TRUE
  /\ inflight' = Remove(inflight, i)
  /\ UNCHANGED <<DATA, hash, started, fetches>>

\* catch of loadData (lines 28-31): renderError, rethrow; router rejects and
\* the listener logs the error
LoadFails(i) ==
  /\ view' = renderError
  /\ last' = Ran(0, hash, renderError, FALSE)
  /\ failed' = TRUE
  /\ inflight' = Remove(inflight, i)
  /\ UNCHANGED <<DATA, hash, started, fetches>>

\* fetch() of the i-th suspended call settles: a response with res.ok,
\* a response without it (line 25), or a rejection
FetchSettles(i, res) ==
  /\ i \in 1..Len(inflight)
  /\ inflight[i] = "fetch"
  /\ IF res = "ok"
     THEN /\ inflight' = [inflight EXCEPT ![i] = "json"]
          /\ UNCHANGED <<DATA, hash, started, view, last, fetches, failed>>
     ELSE LoadFails(i)

\* res.json() of the i-th suspended call settles: payload 0 is a body that
\* does not parse, else the cache is assigned (line 26) and router resumes
JsonSettles(i, payload) ==
  /\ i \in 1..Len(inflight)
  /\ inflight[i] = "json"
  /\ IF payload = 0
     THEN LoadFails(i)
     ELSE /\ DATA' = payload
          /\ Resume(payload, hash, FALSE)
          /\ inflight' = Remove(inflight, i)
          /\ UNCHANGED <<hash, started, fetches, failed>>

Next ==
  \/ DOMContentLoaded
  \/ \E h \in Fragments : HashChange(h)
  \/ \E i \in 1..MaxInFlight, res \in {"ok", "status", "reject"} : FetchSettles(i, res)
  \/ \E i \in 1..MaxInFlight, payload \in Payloads \cup {0} : JsonSettles(i, payload)

Spec == Init /\ [][Next]_vars

\* ------------------------------------------------------------------------
\* Sessions whose dataset is loaded: the state after the startup navigation
\* resumed with dataset d at the home fragment, then any fragment changes
\* ------------------------------------------------------------------------
InitLoaded ==
  \E d \in DatasetIds, h \in {F_empty, F_home} :
    LET out == router(Datasets[d], h)
    IN  /\ DATA = d
        /\ hash = h
        /\ started = TRUE
        /\ inflight = <<>>
        /\ view = (IF out.kind = "Throw" THEN Blank ELSE out)
        /\ last = Ran(d, h, out, FALSE)
        /\ fetches = 1
        /\ failed = FALSE

NextLoaded == \E h \in AllFragments : HashChange(h)

SpecLoaded == InitLoaded /\ [][NextLoaded]_vars

\* ------------------------------------------------------------------------
\* Properties
\* ------------------------------------------------------------------------

\* the last router() call ran on a loaded dataset
LastData == Datasets[last.data]

LastParts == Parts(last.hash)

\* a step in which a listener calls router(): the startup or a fragment change
NavStarts == started' # started \/ hash' # hash

\* C1: while no load has failed, at most one fetch of the dataset is ever
\* issued, whatever the interleaving of the startup navigation and of the
\* fragment changes that arrive while the first fetch is pending.
C1_SingleFetch == ~failed => fetches <= 1

\* C2: with the dataset loaded, a fragment of more than four non-empty
\* segments ends in NotFound, also when its first three slugs resolve.
C2_TooManySegments ==
  (last.data # 0 /\ Len(LastParts) > 4 /\ last.out.kind # "Throw")
    => last.out.kind = "NotFound"

\* the lookups a City or Attraction route makes, level by level:
\* an index, 0 for not found, -1 for a lookup that threw, -2 for not reached
RegionLevel == findRegion(LastData, TryDecode(LastParts[2]))

CityLevel ==
  IF RegionLevel <= 0 THEN -2
  ELSE findCity(LastData.v[RegionLevel], TryDecode(LastParts[3]))

AttractionLevel ==
  IF CityLevel <= 0 \/ Len(LastParts) < 4 THEN -2
  ELSE findAttraction(LastData.v[RegionLevel].f.cities.v[CityLevel], TryDecode(LastParts[4]))

CityRoute == last.data # 0 /\ Len(LastParts) = 3 /\ LastParts[1] = REGION

AttractionRoute == last.data # 0 /\ Len(LastParts) = 4 /\ LastParts[1] = REGION

\* C3: on a City or Attraction route, a level that fails to match ends the
\* navigation in NotFound, and no view of a shallower level is rendered.
C3_ShortCircuit ==
  /\ CityRoute =>
       /\ last.out.kind \in {"City", "NotFound", "Throw"}
       /\ (RegionLevel = 0 \/ CityLevel = 0)
            => (last.out = renderNotFound /\ view = renderNotFound)
  /\ AttractionRoute =>
       /\ last.out.kind \in {"Attraction", "NotFound", "Throw"}
       /\ (RegionLevel = 0 \/ CityLevel = 0 \/ AttractionLevel = 0)
            => (last.out = renderNotFound /\ view = renderNotFound)

\* a valid region with a city slug it does not list, and a valid region and
\* city with a landmark slug the city does not list
C3_Witness ==
  /\ CityRoute
  /\ RegionLevel > 0
  /\ CityLevel = 0
  /\ view = renderNotFound

\* ------------------------------------------------------------------------
\* The slug of an entity as the specification defines it, and its multi-way
\* comparison with a path segment
\* ------------------------------------------------------------------------

\* derived from the display name: lower-cased, whitespace runs to a hyphen,
\* percent-encoded
DerivedSlug(e, alias) ==
  encodeURIComponent(ReplaceSpaces(ToLowerCase(
    Or3(StrField(e, "name"), StrField(e, "title"), StrField(e, alias)))))

\* equal directly, or after tolerant percent-decoding of both sides
SameSlug(seg, slug) == seg = slug \/ TryDecode(seg) = TryDecode(slug)

SlugMatches(e, alias, seg) ==
  \/ SameSlug(seg, DerivedSlug(e, alias))
  \/ Has(e, "slug") /\ SameSlug(seg, e.f.slug)

\* no null entry at any level of a dataset that is a sequence
NoNulls(d) ==
  /\ IsArray(d)
  /\ ~HasNullEntry(d.v)
  /\ \A i \in 1..Len(d.v) :
       LET cities == ChildArray(d.v[i], "cities")
       IN  /\ ~HasNullEntry(cities)
           /\ \A j \in 1..Len(cities) : ~HasNullEntry(ChildArray(cities[j], "landmarks"))

RegionRoute == last.data # 0 /\ Len(LastParts) = 2 /\ LastParts[1] = REGION

\* entity i of items has no explicit slug and is the first of items with its
\* derived slug
FirstDerived(items, i, alias) ==
  /\ ~Has(items[i], "slug")
  /\ DerivedSlug(items[i], alias) # <<>>
  /\ \A k \in 1..(i - 1) : ~SlugMatches(items[k], alias, DerivedSlug(items[i], alias))

\* seg is the derived slug X of e or its decoded form S
EncodedOrDecoded(seg, e, alias) ==
  seg \in {DerivedSlug(e, alias), TryDecode(DerivedSlug(e, alias))}

\* C4: at every level, for an entity without an explicit slug whose name
\* derives to the slug X, the segment X and its decoded form S both resolve
\* to that entity.
C4_DecodeSymmetric ==
  (last.data # 0 /\ NoNulls(LastData)) =>
    /\ RegionRoute =>
         \A i \in 1..Len(LastData.v) :
           (FirstDerived(LastData.v, i, "region")
              /\ EncodedOrDecoded(LastParts[2], LastData.v[i], "region"))
             => (last.out.kind = "Region" /\ last.out.region = i)
    /\ (CityRoute /\ RegionLevel > 0) =>
         LET cities == ChildArray(LastData.v[RegionLevel], "cities")
         IN  \A j \in 1..Len(cities) :
               (FirstDerived(cities, j, "city")
                  /\ EncodedOrDecoded(LastParts[3], cities[j], "city"))
                 => (last.out.kind = "City" /\ last.out.city = <<RegionLevel, j>>)
    /\ (AttractionRoute /\ CityLevel > 0) =>
         LET marks == ChildArray(LastData.v[RegionLevel].f.cities.v[CityLevel], "landmarks")
         IN  \A k \in 1..Len(marks) :
               (FirstDerived(marks, k, "name")
                  /\ EncodedOrDecoded(LastParts[4], marks[k], "name"))
                 => (last.out.kind = "Attraction"
                       /\ last.out.attraction = <<RegionLevel, CityLevel, k>>)

\* C5: at every level, a segment that matches neither the derived nor the
\* explicit slug of any entity of the container searched, directly or after
\* tolerant decoding of both sides, resolves to NotFound.
C5_NoMatchNotFound ==
  (last.data # 0 /\ NoNulls(LastData)) =>
    /\ RegionRoute =>
         ((\A i \in 1..Len(LastData.v) : ~SlugMatches(LastData.v[i], "region", LastParts[2]))
            => last.out.kind = "NotFound")
    /\ (CityRoute /\ RegionLevel > 0) =>
         LET cities == ChildArray(LastData.v[RegionLevel], "cities")
         IN  ((\A j \in 1..Len(cities) : ~SlugMatches(cities[j], "city", LastParts[3]))
                => last.out.kind = "NotFound")
    /\ (AttractionRoute /\ CityLevel > 0) =>
         LET marks == ChildArray(LastData.v[RegionLevel].f.cities.v[CityLevel], "landmarks")
         IN  ((\A k \in 1..Len(marks) : ~SlugMatches(marks[k], "name", LastParts[4]))
                => last.out.kind = "NotFound")

\* C6: once a load has failed, a navigation that starts later issues no
\* fetch and leaves the Error view on screen.
C6_FailureTerminal ==
  [][(failed /\ NavStarts) => (fetches' = fetches /\ view'.kind = "Error")]_vars

\* C7: once the cache holds a dataset, a navigation that starts issues no
\* fetch, does not suspend, and dispatches on the cached dataset.
C7_CachedNoFetch ==
  [][(DATA # 0 /\ NavStarts)
       => /\ fetches' = fetches
          /\ inflight' = inflight
          /\ last'.cached
          /\ last'.data = DATA
          /\ last'.hash = hash'
          /\ DATA' = DATA]_vars

\* a navigation after the load was answered from the cache: one fetch in the
\* whole session, none pending
C7_Witness ==
  /\ DATA # 0
  /\ last.cached
  /\ last.data = DATA
  /\ fetches = 1
  /\ inflight = <<>>

\* C8: the cache is write-once: a dataset it holds is never replaced.
C8_WriteOnce == [][DATA # 0 => DATA' = DATA]_vars

\* the cities of the region a route resolved, by the region's index
CitiesOf(d, ri) == ChildArray(d.v[ri], "cities")

\* C9: the city shown for a route is listed by the region resolved for the
\* route, the landmark shown is listed by that city, and a city slug that the
\* resolved region does not list is NotFound whatever other regions list.
C9_Containment ==
  last.data # 0 =>
    /\ last.out.kind \in {"City", "Attraction"} =>
         /\ last.out.region = RegionLevel
         /\ last.out.city[1] = last.out.region
         /\ last.out.city[2] \in 1..Len(CitiesOf(LastData, last.out.region))
         /\ CityTest(CitiesOf(LastData, last.out.region)[last.out.city[2]],
                     TryDecode(LastParts[3])) = "yes"
    /\ last.out.kind = "Attraction" =>
         /\ SubSeq(last.out.attraction, 1, 2) = last.out.city
         /\ last.out.attraction[3] \in
              1..Len(ChildArray(CitiesOf(LastData, last.out.region)[last.out.city[2]],
                                "landmarks"))
    /\ ((CityRoute \/ AttractionRoute) /\ RegionLevel > 0
          /\ \A j \in 1..Len(CitiesOf(LastData, RegionLevel)) :
               CityTest(CitiesOf(LastData, RegionLevel)[j], TryDecode(LastParts[3])) = "no")
         => last.out = renderNotFound

\* a city slug that another region lists, looked up under a region that
\* does not list it
C9_Witness ==
  /\ CityRoute
  /\ RegionLevel > 0
  /\ CityLevel = 0
  /\ \E rj \in 1..Len(LastData.v) :
       /\ rj # RegionLevel
       /\ LastData.v[rj].t # "null"
       /\ findCity(LastData.v[rj], TryDecode(LastParts[3])) > 0
  /\ view = renderNotFound

\* C10: with the dataset loaded, every navigation ends in one of Home,
\* Region, City, Attraction, NotFound: the handler always renders.
C10_Total ==
  last.data # 0 =>
    last.out.kind \in {"Home", "Region", "City", "Attraction", "NotFound"}

\* a render function may throw only on a null entry of the dataset
ThrowsOnlyOnNull == last.out.kind = "Throw" => ~NoNulls(LastData)

\* C11: for fragments of zero to four segments the dispatcher selects the
\* state of the transition table: Home for none; Region, City or Attraction
\* resolution for `region` plus one, two or three segments; NotFound, with
\* no lookup, for another first segment and for `region` alone.
C11_TransitionTable ==
  (last.data # 0 /\ Len(LastParts) <= 4) =>
    /\ ThrowsOnlyOnNull
    /\ Len(LastParts) = 0 => last.out.kind \in {"Home", "Throw"}
    /\ (Len(LastParts) >= 1 /\ LastParts[1] # REGION) => last.out = renderNotFound
    /\ (Len(LastParts) = 1 /\ LastParts[1] = REGION) => last.out = renderNotFound
    /\ RegionRoute =>
         /\ last.out.kind \in {"Region", "NotFound", "Throw"}
         /\ last.out.kind = "NotFound" <=> RegionLevel = 0
         /\ last.out.kind = "Region" => last.out.region = RegionLevel
    /\ CityRoute =>
         /\ last.out.kind \in {"City", "NotFound", "Throw"}
         /\ last.out.kind = "NotFound" <=> (RegionLevel = 0 \/ CityLevel = 0)
         /\ last.out.kind = "City" => last.out.city = <<RegionLevel, CityLevel>>
    /\ AttractionRoute =>
         /\ last.out.kind \in {"Attraction", "NotFound", "Throw"}
         /\ last.out.kind = "NotFound"
              <=> (RegionLevel = 0 \/ CityLevel = 0 \/ AttractionLevel = 0)
         /\ last.out.kind = "Attraction"
              => last.out.attraction = <<RegionLevel, CityLevel, AttractionLevel>>

\* a first segment other than `region` on a dataset whose lookups would
\* throw: NotFound, so no lookup was made
C11_Witness ==
  /\ last.data # 0
  /\ ~NoNulls(LastData)
  /\ IsArray(LastData)
  /\ Len(LastParts) = 2
  /\ LastParts[1] # REGION
  /\ view = renderNotFound

\* a step in which the load of a suspended router() call fails: the call
\* leaves loadData without a dataset
LoadFailure == Len(inflight') < Len(inflight) /\ last'.data = 0

\* C12: when the fetch of a navigation fails (rejection, non-success status
\* or a body that does not parse), that navigation renders the Error view and
\* none of Home, Region, City, Attraction, NotFound.
C12_FailureShowsError ==
  [][LoadFailure => (failed' /\ view' = renderError /\ last'.out = renderError)]_vars

\* a failed load, with the Error view on screen
C12_Witness ==
  /\ failed
  /\ last.data = 0
  /\ last.out = renderError
  /\ view = renderError

\* entity i of items carries an explicit slug and is the first of items
\* that the slug matches
FirstExplicit(items, i, alias) ==
  /\ StrField(items[i], "slug") # <<>>
  /\ \A k \in 1..(i - 1) : ~SlugMatches(items[k], alias, items[i].f.slug)

\* seg is the explicit slug of e as it arrives: verbatim, percent-encoded
\* or percent-decoded
ArrivesAs(seg, e) ==
  seg \in {e.f.slug, encodeURIComponent(e.f.slug), TryDecode(e.f.slug)}

\* C13: at each of the three levels, the explicit slug of an entity resolves
\* to the entity both when the segment arrives percent-encoded and when it
\* arrives decoded.
C13_ExplicitSlugBothForms ==
  (last.data # 0 /\ NoNulls(LastData)) =>
    /\ RegionRoute =>
         \A i \in 1..Len(LastData.v) :
           (FirstExplicit(LastData.v, i, "region") /\ ArrivesAs(LastParts[2], LastData.v[i]))
             => (last.out.kind = "Region" /\ last.out.region = i)
    /\ (CityRoute /\ RegionLevel > 0) =>
         LET cities == ChildArray(LastData.v[RegionLevel], "cities")
         IN  \A j \in 1..Len(cities) :
               (FirstExplicit(cities, j, "city") /\ ArrivesAs(LastParts[3], cities[j]))
                 => (last.out.kind = "City" /\ last.out.city = <<RegionLevel, j>>)
    /\ (AttractionRoute /\ CityLevel > 0) =>
         LET marks == ChildArray(LastData.v[RegionLevel].f.cities.v[CityLevel], "landmarks")
         IN  \A k \in 1..Len(marks) :
               (FirstExplicit(marks, k, "name") /\ ArrivesAs(LastParts[4], marks[k]))
                 => (last.out.kind = "Attraction"
                       /\ last.out.attraction = <<RegionLevel, CityLevel, k>>)

\* the slug derived from the name field alone
NameSlug(e) == encodeURIComponent(ReplaceSpaces(ToLowerCase(StrField(e, "name"))))

\* the slug derived from the first non-empty of alias, name, title
AliasFirstSlug(e, alias) ==
  encodeURIComponent(ReplaceSpaces(ToLowerCase(
    Or3(StrField(e, alias), StrField(e, "name"), StrField(e, "title")))))

\* e has a name and an alias with different values and no explicit slug
NameAndAlias(e, alias) ==
  /\ StrField(e, "name") # <<>>
  /\ StrField(e, alias) # <<>>
  /\ StrField(e, "name") # StrField(e, alias)
  /\ ~Has(e, "slug")

\* C14 as claimed: for an entity with both a name and an alias, the slug
\* derived from the name resolves to it (priority name, title, alias).
C14_NameFirst ==
  (last.data # 0 /\ NoNulls(LastData)) =>
    /\ RegionRoute =>
         \A i \in 1..Len(LastData.v) :
           (NameAndAlias(LastData.v[i], "region") /\ LastParts[2] = NameSlug(LastData.v[i]))
             => (last.out.kind = "Region" /\ last.out.region = i)
    /\ (CityRoute /\ RegionLevel > 0) =>
         LET cities == ChildArray(LastData.v[RegionLevel], "cities")
         IN  \A j \in 1..Len(cities) :
               (NameAndAlias(cities[j], "city") /\ LastParts[3] = NameSlug(cities[j]))
                 => (last.out.kind = "City" /\ last.out.city = <<RegionLevel, j>>)

\* no entry of items before the i-th passes the comparison of the find
\* callback with the decoded segment seg
NoEarlier(items, i, alias, seg) ==
  \A k \in 1..(i - 1) :
    AliasFirstSlug(items[k], alias) # seg /\ StringOfSlug(items[k]) # seg

\* C14 amended: a region or city is matched under the slug derived from the
\* first non-empty of alias (region / city), name, title: the first entry
\* whose slug so derived equals the decoded segment is the one shown, and an
\* entry with a different name and alias is not reached through the slug of
\* its name.
C14_AliasFirst ==
  (last.data # 0 /\ NoNulls(LastData)) =>
    /\ RegionRoute =>
         \A i \in 1..Len(LastData.v) :
           LET e == LastData.v[i]
               seg == TryDecode(LastParts[2])
           IN  /\ (AliasFirstSlug(e, "region") = seg /\ NoEarlier(LastData.v, i, "region", seg))
                    => (last.out.kind = "Region" /\ last.out.region = i)
               /\ (NameAndAlias(e, "region") /\ NameSlug(e) = seg
                     /\ AliasFirstSlug(e, "region") # seg /\ seg # UNDEFINED)
                    => ~(last.out.kind = "Region" /\ last.out.region = i)
    /\ (CityRoute /\ RegionLevel > 0) =>
         LET cities == ChildArray(LastData.v[RegionLevel], "cities")
         IN  \A j \in 1..Len(cities) :
               LET e == cities[j]
                   seg == TryDecode(LastParts[3])
               IN  /\ (AliasFirstSlug(e, "city") = seg /\ NoEarlier(cities, j, "city", seg))
                        => (last.out.kind = "City" /\ last.out.city = <<RegionLevel, j>>)
                   /\ (NameAndAlias(e, "city") /\ NameSlug(e) = seg
                         /\ AliasFirstSlug(e, "city") # seg /\ seg # UNDEFINED)
                        => ~(last.out.kind = "City" /\ last.out.city = <<RegionLevel, j>>)

\* the Region view of an entry with a name and a different alias, reached
\* through the slug of the alias
C14_Witness ==
  /\ RegionRoute
  /\ NoNulls(LastData)
  /\ view.kind = "Region"
  /\ NameAndAlias(LastData.v[view.region], "region")
  /\ AliasFirstSlug(LastData.v[view.region], "region") = TryDecode(LastParts[2])

\* C15: findRegion, findCity and findAttraction return an entity or the
\* not-found sentinel for any dataset content, null entries included, and
\* the navigation ends in a rendered state: no lookup of a route raises.
C15_LookupsNeverRaise ==
  (last.data # 0 /\ Len(LastParts) >= 2 /\ LastParts[1] = REGION) =>
    /\ RegionLevel >= 0
    /\ Len(LastParts) >= 3 => CityLevel # -1
    /\ Len(LastParts) >= 4 => AttractionLevel # -1
    /\ last.out.kind # "Throw"

\* the resolved region of the route, and the resolved city
LastRegion == LastData.v[RegionLevel]

LastCity == ChildArray(LastRegion, "cities")[CityLevel]

\* C16: a city slug looked up in a region whose cities is absent or not an
\* array, and a landmark slug looked up in a city whose landmarks is absent
\* or not an array, give NotFound; the Region or City view of such a
\* container renders, with no card.
C16_MissingChildren ==
  (last.data # 0 /\ Len(LastParts) \in 2..4 /\ LastParts[1] = REGION /\ RegionLevel > 0) =>
    /\ (Len(LastParts) >= 3 /\ ~HasChildArray(LastRegion, "cities"))
         => (last.out = renderNotFound /\ view = renderNotFound)
    /\ (Len(LastParts) = 2 /\ ~HasChildArray(LastRegion, "cities"))
         => /\ last.out = View("Region", RegionLevel, <<>>, <<>>)
            /\ view = last.out
            /\ Cards(LastData, last.hash) = <<>>
    /\ (Len(LastParts) >= 3 /\ CityLevel > 0 /\ ~HasChildArray(LastCity, "landmarks")) =>
         /\ Len(LastParts) = 4
              => (last.out = renderNotFound /\ view = renderNotFound)
         /\ Len(LastParts) = 3
              => /\ last.out = View("City", RegionLevel, <<RegionLevel, CityLevel>>, <<>>)
                 /\ view = last.out
                 /\ Cards(LastData, last.hash) = <<>>

\* a city looked up in a region that has no array of cities
C16_Witness ==
  /\ CityRoute
  /\ RegionLevel > 0
  /\ ~HasChildArray(LastRegion, "cities")
  /\ view = renderNotFound

\* decodeURIComponent throws URIError on the segment
DecodeFails(seg) == ~decodeURIComponent(seg).ok

\* the k-th segment as the lookups are to receive it: decoded, or raw when
\* the decoding fails
RawOrDecoded(k) ==
  IF DecodeFails(LastParts[k]) THEN LastParts[k] ELSE decodeURIComponent(LastParts[k]).v

\* C17: a segment whose percent-decoding fails is looked up in its raw form:
\* the navigation ends in the view of the entity the raw text matches or in
\* NotFound, and in no other state; nothing is thrown unless the lookup
\* meets a null entry of the dataset.
C17_RawFallback ==
  (/\ last.data # 0
   /\ Len(LastParts) \in 2..4
   /\ LastParts[1] = REGION
   /\ \E k \in 2..Len(LastParts) : DecodeFails(LastParts[k])) =>
    /\ last.out.kind \in {"Region", "City", "Attraction", "NotFound"}
         \/ (last.out.kind = "Throw" /\ ~NoNulls(LastData))
    /\ last.out.kind # "Throw" => view = last.out
    /\ Len(LastParts) = 2 =>
         last.out = renderRegion(LastData, RawOrDecoded(2))
    /\ Len(LastParts) = 3 =>
         last.out = renderCity(LastData, RawOrDecoded(2), RawOrDecoded(3))
    /\ Len(LastParts) = 4 =>
         /\ last.out = renderAttraction(LastData, RawOrDecoded(2), RawOrDecoded(3), RawOrDecoded(4))
         /\ last.out.kind # "City"

\* a landmark reached through a segment that cannot be decoded
C17_Witness ==
  /\ AttractionRoute
  /\ DecodeFails(LastParts[4])
  /\ view.kind = "Attraction"
  /\ view = last.out

\* C18: when several entries of one container match the slug, the lookup
\* returns the one listed first, at each of the three levels: the entity
\* shown is never listed after another entry that matches the segment.
C18_FirstWins ==
  (last.data # 0 /\ Len(LastParts) \in 2..4 /\ LastParts[1] = REGION) =>
    /\ last.out.kind \in {"Region", "City", "Attraction"} =>
         \A k \in 1..Len(LastData.v) :
           RegionTest(LastData.v[k], TryDecode(LastParts[2])) = "yes"
             => last.out.region <= k
    /\ last.out.kind \in {"City", "Attraction"} =>
         LET cities == CitiesOf(LastData, last.out.region)
         IN  \A k \in 1..Len(cities) :
               CityTest(cities[k], TryDecode(LastParts[3])) = "yes"
                 => last.out.city[2] <= k
    /\ last.out.kind = "Attraction" =>
         LET landmarks == ChildArray(CitiesOf(LastData, last.out.region)[last.out.city[2]],
                                     "landmarks")
         IN  \A k \in 1..Len(landmarks) :
               AttractionTest(landmarks[k], TryDecode(LastParts[4])) = "yes"
                 => last.out.attraction[3] <= k

\* a landmark shown while a later landmark of the city, a later city of the
\* region and a later region match the same segments
C18_Witness ==
  /\ AttractionRoute
  /\ view.kind = "Attraction"
  /\ view = last.out
  /\ \E k \in (view.region + 1)..Len(LastData.v) :
       RegionTest(LastData.v[k], TryDecode(LastParts[2])) = "yes"
  /\ LET cities == CitiesOf(LastData, view.region)
         landmarks == ChildArray(cities[view.city[2]], "landmarks")
     IN  /\ \E k \in (view.city[2] + 1)..Len(cities) :
               CityTest(cities[k], TryDecode(LastParts[3])) = "yes"
         /\ \E k \in (view.attraction[3] + 1)..Len(landmarks) :
               AttractionTest(landmarks[k], TryDecode(LastParts[4])) = "yes"

\* no router() call is suspended and at least one has run
Quiescent == started /\ inflight = <<>>

\* C19: once no navigation handler is in flight, the view on screen is the
\* state the dispatcher assigns to the current fragment: the view of the
\* loaded dataset for location.hash, and never an Error view written over
\* it by a handler whose own load failed.
C19_QuiescentDisplay ==
  (Quiescent /\ DATA # 0 /\ router(Datasets[DATA], hash).kind # "Throw") =>
    view = router(Datasets[DATA], hash)

\* the texts under which the entry e of a container can be reached
SlugsOf(e, alias) ==
  {CardSlug(e, alias), TryDecode(CardSlug(e, alias)), getSlug(e), TryDecode(getSlug(e))}
  \cup (IF Has(e, "slug") THEN {e.f.slug, TryDecode(e.f.slug)} ELSE {})

\* no two entries of items can be reached under one text
DistinctSlugs(items, alias) ==
  \A i \in 1..Len(items) : \A k \in (i + 1)..Len(items) :
    SlugsOf(items[i], alias) \cap SlugsOf(items[k], alias) = {}

\* the slugs of d are unique within each container
UniqueSlugs(d) ==
  /\ NoNulls(d)
  /\ DistinctSlugs(d.v, "region")
  /\ \A i \in 1..Len(d.v) :
       LET cities == ChildArray(d.v[i], "cities")
       IN  /\ DistinctSlugs(cities, "city")
           /\ \A j \in 1..Len(cities) :
                DistinctSlugs(ChildArray(cities[j], "landmarks"), "name")

\* C20: on a dataset whose slugs are unique within each container, following
\* any anchor of the view on screen (region, city and landmark links,
\* breadcrumbs) shows the view of the entity the anchor was generated for.
C20_LinksRoundTrip ==
  [][(/\ last.data # 0
      /\ last.hash = hash
      /\ view = last.out
      /\ UniqueSlugs(LastData))
       => \A l \in Links(LastData, hash) :
            hash' = l.href => (last'.out = l.target /\ view' = l.target)]_vars

====
